---- MODULE Spec2Model ----
(***************************************************************************)
(* A model of the task queue server of server.py: Task, TaskQueue,         *)
(* QueueDict and the request handling of TaskQueueServer.                  *)
(*                                                                         *)
(* Text (requests, tokens, payloads, responses) is a sequence of           *)
(* one-character strings, so that str.split(), str.format() and the        *)
(* payload concatenation are computed as the code computes them.           *)
(* Time is counted in clock ticks, TicksPerSecond to a second, so that the *)
(* truncation int(time.time() - start_wait_time) is a real operation.      *)
(***************************************************************************)
EXTENDS Integers, Sequences, FiniteSets, TLC

VARIABLES
    queues,      \* QueueDict._queue_dict of the running process: name -> list of Task
    disk,        \* the content of <path>/server.log
    now,         \* the clock read by time.time(), in ticks
    status,      \* "running", "crashed" (uncaught exception left run()) or "hung"
    timeout,     \* TaskQueueServer._timeout of the running process, in seconds
    nextUuid,    \* number of uuid4() values drawn so far (every draw is fresh)
    req,         \* the last request taken from accept(): first read and later reads
    resp,        \* the answer sent for it (NoAnswer when none was sent)
    pc,          \* where run() stands: "listen" (before bind), "accept" (before
                 \* accept), "close" (after send) or "handling" (it never came
                 \* back from server_recv)
    dispatched,  \* history: task id -> the tick of its last dispatch by GET and the
                 \* number of its dispatches, as far as this process knows
    acked,       \* history: the <<queue, id>> this process answered ACK with YES
    saved,       \* history: the registry when SAVE was last answered OK
    added        \* history: the <<queue, id>> of the tasks this process created on
                 \* ADD or loaded from the snapshot at its start

vars ==
    <<queues, disk, now, status, timeout, nextUuid, req, resp, pc,
      dispatched, acked, saved, added>>

-----------------------------------------------------------------------------
(* Bounds of the model *)

MaxTasks == 2          \* uuid4() draws (tasks ever created)
MaxNow == 3            \* last clock tick
TicksPerSecond == 2    \* clock resolution

(* Program constants *)
DefaultTimeout == 300  \* timeout or 300
NoneTime == -1         \* start_wait_time = None

-----------------------------------------------------------------------------
(* Text *)

Whitespace == {" ", "\n"}
BadByte == "xFF"       \* a byte that is not valid UTF-8

ADD == <<"A", "D", "D">>
GET == <<"G", "E", "T">>
ACK == <<"A", "C", "K">>
IN_ == <<"I", "N">>
SAVE == <<"S", "A", "V", "E">>

ERROR == <<"E", "R", "R", "O", "R">>
NONE == <<"N", "O", "N", "E">>
YES == <<"Y", "E", "S">>
NO == <<"N", "O">>
OK == <<"O", "K">>
NoAnswer == <<>>

Range(s) == {s[i] : i \in 1..Len(s)}

\* bytes.decode(): fails on a byte sequence that is not UTF-8
CanDecode(bytes) == BadByte \notin Range(bytes)

\* str.split(): the maximal runs of non-whitespace characters, in order
RECURSIVE SplitFrom(_, _, _)
SplitFrom(s, cur, acc) ==
    IF s = <<>>
    THEN IF cur = <<>> THEN acc ELSE Append(acc, cur)
    ELSE IF Head(s) \in Whitespace
         THEN SplitFrom(Tail(s), <<>>, IF cur = <<>> THEN acc ELSE Append(acc, cur))
         ELSE SplitFrom(Tail(s), Append(cur, Head(s)), acc)

Split(s) == SplitFrom(s, <<>>, <<>>)

Digits == <<"0", "1", "2", "3", "4", "5", "6", "7", "8", "9">>

DigitVal(c) == (CHOOSE i \in 1..10 : Digits[i] = c) - 1

IsDigits(tok) == tok # <<>> /\ \A i \in 1..Len(tok) : tok[i] \in Range(Digits)

RECURSIVE DigitsVal(_)
DigitsVal(tok) ==
    IF tok = <<>> THEN 0
    ELSE 10 * DigitsVal(SubSeq(tok, 1, Len(tok) - 1)) + DigitVal(tok[Len(tok)])

\* int(token): an optional sign and decimal digits; anything else is a ValueError
IsInt(tok) ==
    \/ IsDigits(tok)
    \/ tok # <<>> /\ Head(tok) \in {"-", "+"} /\ IsDigits(Tail(tok))

ToInt(tok) ==
    IF Head(tok) = "-" THEN 0 - DigitsVal(Tail(tok))
    ELSE IF Head(tok) = "+" THEN DigitsVal(Tail(tok))
    ELSE DigitsVal(tok)

\* str(n) for 0 <= n <= 99
Str(n) == IF n < 10 THEN <<Digits[n + 1]>> ELSE <<Digits[(n \div 10) + 1], Digits[(n % 10) + 1]>>

\* str(uuid.uuid4()): the n-th draw, a token unlike every other draw
Uuid(n) == <<"u">> \o Str(n)

\* "{} {} {}".format(task_id, length, data)
Format3(a, b, c) == a \o <<" ">> \o b \o <<" ">> \o c

-----------------------------------------------------------------------------
(* Task *)

NewTask(task_id, length, data, tmo) ==
    [task_id |-> task_id, length |-> length, data |-> data, timeout |-> tmo,
     is_waiting |-> FALSE, start_wait_time |-> NoneTime]

\* Variant of ElapsedSeconds: round() in place of int()
ElapsedSecondsRounded(t, start) == (2 * (t - start) + TicksPerSecond) \div (2 * TicksPerSecond)

\* int(time.time() - start_wait_time), whole seconds
ElapsedSeconds(t, start) == (t - start) \div TicksPerSecond

\* Variant of Update: > in place of >=
UpdateLate(task, t) ==
    IF task.start_wait_time # NoneTime
       /\ ElapsedSeconds(t, task.start_wait_time) > task.timeout
    THEN [task EXCEPT !.is_waiting = FALSE, !.start_wait_time = NoneTime]
    ELSE task

\* Variant of Update: the expiry clears the time and leaves is_waiting set
UpdateKeepsWaiting(task, t) ==
    IF task.start_wait_time # NoneTime
       /\ ElapsedSeconds(t, task.start_wait_time) >= task.timeout
    THEN [task EXCEPT !.start_wait_time = NoneTime]
    ELSE task

Update(task, t) ==
    IF task.start_wait_time # NoneTime
       /\ ElapsedSeconds(t, task.start_wait_time) >= task.timeout
    THEN [task EXCEPT !.is_waiting = FALSE, !.start_wait_time = NoneTime]
    ELSE task

\* Variant of StartWait: the flag is set and the time is not
StartWaitFlagOnly(task, t) == [task EXCEPT !.is_waiting = TRUE]

StartWait(task, t) == [task EXCEPT !.start_wait_time = t, !.is_waiting = TRUE]

-----------------------------------------------------------------------------
(* TaskQueue: the list _tasks *)

NoTask == NewTask(<<>>, <<>>, <<>>, 0)

\* get_task: [found, task, tasks], tasks being _tasks after the call
RECURSIVE GetTaskFrom(_, _, _)
GetTaskFrom(tasks, i, t) ==
    IF i > Len(tasks)
    THEN [found |-> FALSE, task |-> NoTask, tasks |-> tasks]
    ELSE LET u == Update(tasks[i], t)
         IN  IF ~u.is_waiting
             THEN LET w == StartWait(u, t)
                  IN  [found |-> TRUE, task |-> w, tasks |-> [tasks EXCEPT ![i] = w]]
             ELSE GetTaskFrom([tasks EXCEPT ![i] = u], i + 1, t)

\* Variant of QueueGetTask: the first task is handed out, waiting or not
QueueGetTaskAny(tasks, t) ==
    IF tasks = <<>>
    THEN [found |-> FALSE, task |-> NoTask, tasks |-> tasks]
    ELSE LET w == StartWait(Update(tasks[1], t), t)
         IN  [found |-> TRUE, task |-> w, tasks |-> [tasks EXCEPT ![1] = w]]

\* Variant of QueueGetTask: the task found is returned and not marked
QueueGetTaskUnmarked(tasks, t) ==
    LET r == GetTaskFrom(tasks, 1, t)
    IN  [r EXCEPT !.tasks = tasks]

QueueGetTask(tasks, t) == GetTaskFrom(tasks, 1, t)

QueueInTask(tasks, task_id) == \E i \in 1..Len(tasks) : tasks[i].task_id = task_id

RemoveAt(tasks, i) == SubSeq(tasks, 1, i - 1) \o SubSeq(tasks, i + 1, Len(tasks))

\* Variant of QueueAckTask: the acknowledged task is not deleted
QueueAckTaskKeeps(tasks, task_id, t) ==
    IF ~QueueInTask(tasks, task_id)
    THEN [ok |-> FALSE, tasks |-> tasks]
    ELSE LET idx == CHOOSE i \in 1..Len(tasks) : tasks[i].task_id = task_id
             u == Update(tasks[idx], t)
         IN  [ok |-> u.is_waiting, tasks |-> [tasks EXCEPT ![idx] = u]]

\* ack_task: [ok, tasks]
QueueAckTask(tasks, task_id, t) ==
    IF ~QueueInTask(tasks, task_id)
    THEN [ok |-> FALSE, tasks |-> tasks]
    ELSE LET idx == CHOOSE i \in 1..Len(tasks) :
                        /\ tasks[i].task_id = task_id
                        /\ \A j \in 1..(i - 1) : tasks[j].task_id # task_id
             u == Update(tasks[idx], t)
         IN  IF u.is_waiting
             THEN [ok |-> TRUE, tasks |-> RemoveAt(tasks, idx)]
             ELSE [ok |-> FALSE, tasks |-> [tasks EXCEPT ![idx] = u]]

-----------------------------------------------------------------------------
(* QueueDict: the dict _queue_dict, a function from queue names to lists *)

EmptyDict == [n \in {} |-> <<>>]

\* Variant of Put: a queue left without tasks is dropped from the dict
PutDropsEmpty(qd, name, tasks) ==
    [n \in (IF tasks = <<>> THEN DOMAIN qd \ {name} ELSE DOMAIN qd \cup {name}) |->
        IF n = name THEN tasks ELSE qd[n]]

Put(qd, name, tasks) == [n \in DOMAIN qd \cup {name} |-> IF n = name THEN tasks ELSE qd[n]]

\* Variant of DictAddTask: the queue is made anew on every call
DictAddTaskAnew(qd, name, task) ==
    [answer |-> task.task_id, qd |-> Put(qd, name, <<task>>)]

\* each operation: [answer, qd], qd being _queue_dict after the call
DictAddTask(qd, name, task) ==
    LET old == IF name \in DOMAIN qd THEN qd[name] ELSE <<>>
    IN  [answer |-> task.task_id, qd |-> Put(qd, name, Append(old, task))]

\* Variant of DictGetTask: an unknown name gets an empty queue, as in add_task
DictGetTaskCreates(qd, name, t) ==
    IF name \notin DOMAIN qd
    THEN [answer |-> NONE, qd |-> Put(qd, name, <<>>)]
    ELSE LET r == QueueGetTask(qd[name], t)
         IN  IF r.found
             THEN [answer |-> Format3(r.task.task_id, r.task.length, r.task.data),
                   qd |-> Put(qd, name, r.tasks)]
             ELSE [answer |-> NONE, qd |-> Put(qd, name, r.tasks)]

DictGetTask(qd, name, t) ==
    IF name \notin DOMAIN qd
    THEN [answer |-> NONE, qd |-> qd]
    ELSE LET r == QueueGetTask(qd[name], t)
         IN  IF r.found
             THEN [answer |-> Format3(r.task.task_id, r.task.length, r.task.data),
                   qd |-> Put(qd, name, r.tasks)]
             ELSE [answer |-> NONE, qd |-> Put(qd, name, r.tasks)]

\* Variant of DictInTask: the task found ends its wait
DictInTaskEndsWait(qd, name, task_id) ==
    IF name \notin DOMAIN qd
    THEN [answer |-> ERROR, qd |-> qd]
    ELSE [answer |-> IF QueueInTask(qd[name], task_id) THEN YES ELSE NO,
          qd |-> Put(qd, name,
                     [i \in 1..Len(qd[name]) |->
                         IF qd[name][i].task_id = task_id
                         THEN [qd[name][i] EXCEPT !.is_waiting = FALSE,
                                                  !.start_wait_time = NoneTime]
                         ELSE qd[name][i]])]

DictInTask(qd, name, task_id) ==
    IF name \notin DOMAIN qd
    THEN [answer |-> ERROR, qd |-> qd]
    ELSE [answer |-> IF QueueInTask(qd[name], task_id) THEN YES ELSE NO, qd |-> qd]

DictAckTask(qd, name, task_id, t) ==
    IF name \notin DOMAIN qd
    THEN [answer |-> ERROR, qd |-> qd]
    ELSE LET r == QueueAckTask(qd[name], task_id, t)
         IN  [answer |-> IF r.ok THEN YES ELSE NO, qd |-> Put(qd, name, r.tasks)]

-----------------------------------------------------------------------------
(* The snapshot file <path>/server.log, written and read by pickle *)

NoFile == [state |-> "absent", content |-> {}]

\* the pickled state of one Task object: the values of its attributes
TaskState(task) ==
    <<task.task_id, task.length, task.data, task.timeout, task.is_waiting,
      task.start_wait_time>>

\* Variant of TaskOfState: a loaded task starts as __init__ leaves it
TaskOfStateFresh(s) ==
    [task_id |-> s[1], length |-> s[2], data |-> s[3], timeout |-> s[4],
     is_waiting |-> FALSE, start_wait_time |-> NoneTime]

TaskOfState(s) ==
    [task_id |-> s[1], length |-> s[2], data |-> s[3], timeout |-> s[4],
     is_waiting |-> s[5], start_wait_time |-> s[6]]

\* pickle.dump(_queue_dict): one entry per key, holding the states of its tasks in order
Dump(qd) == {<<n, [i \in 1..Len(qd[n]) |-> TaskState(qd[n][i])]>> : n \in DOMAIN qd}

\* pickle.load
Load(content) ==
    [n \in {e[1] : e \in content} |->
        LET e == CHOOSE e \in content : e[1] = n
        IN  [i \in 1..Len(e[2]) |-> TaskOfState(e[2][i])]]

\* What the file system and the operating system do to one save_to_drive call.
\* at: how far the call came ("open": open() has not created or truncated the
\* file; "truncated": open(..., 'wb') has emptied it and no byte of the pickle
\* has reached it; "writing": some bytes have; "closed": all have).
\* how: "return", "error" (the call raised OSError) or "stop" (the process was
\* stopped there).
NoFault == [at |-> "closed", how |-> "return"]
WriteFaults ==
    {[at |-> a, how |-> h] : a \in {"open", "truncated", "writing"}, h \in {"error", "stop"}}

\* the file when the call has come as far as at
FileAt(qd, file, at) ==
    IF at = "open" THEN file
    ELSE IF at = "truncated" THEN [state |-> "empty", content |-> {}]
    ELSE IF at = "writing" THEN [state |-> "partial", content |-> {}]
    ELSE [state |-> "complete", content |-> Dump(qd)]

\* save_to_drive: open(..., 'wb') and pickle.dump; [st, answer, disk]
DictSaveToDrive(qd, file, io) ==
    [st |-> io.how,
     answer |-> IF io.how = "return" THEN OK ELSE NoAnswer,
     disk |-> FileAt(qd, file, io.at)]

\* init_from_base: [ok, qd]; an existing non-empty file that pickle cannot read raises
DictInitFromBase(file) ==
    IF file.state \in {"absent", "empty"}
    THEN [ok |-> TRUE, qd |-> EmptyDict]
    ELSE IF file.state = "complete"
         THEN [ok |-> TRUE, qd |-> Load(file.content)]
         ELSE [ok |-> FALSE, qd |-> EmptyDict]

-----------------------------------------------------------------------------
(* TaskQueueServer: what handling one request comes to *)

Answer(a, qd, file, n) ==
    [kind |-> "answer", answer |-> a, exc |-> "", qd |-> qd, disk |-> file, uuids |-> n]

Raise(e, qd, file, n) ==
    [kind |-> "raise", answer |-> NoAnswer, exc |-> e, qd |-> qd, disk |-> file, uuids |-> n]

Hang(qd, file, n) ==
    [kind |-> "hang", answer |-> NoAnswer, exc |-> "", qd |-> qd, disk |-> file, uuids |-> n]

\* the process was stopped while it handled the request
Stop(qd, file, n) ==
    [kind |-> "stop", answer |-> NoAnswer, exc |-> "", qd |-> qd, disk |-> file, uuids |-> n]

\* the while loop of recv_add: frags are the later reads of the connection, after
\* which the client has closed it and recv() returns b'' at once, for ever. A turn
\* of the loop that reads b'' leaves params[3] and so the loop condition as they
\* were: with frags used up and the payload still short the loop has no exit
\* ("hang").
RECURSIVE ReadPayload(_, _, _)
ReadPayload(payload, need, frags) ==
    IF ~(Len(payload) < need)
    THEN [st |-> "done", data |-> payload]
    ELSE IF frags = <<>>
         THEN [st |-> "hang", data |-> payload]
         ELSE IF ~CanDecode(Head(frags))
              THEN [st |-> "ParserError", data |-> payload]
              ELSE ReadPayload(payload \o Head(frags), need, Tail(frags))

RecvAdd(params, frags, qd, file, t, tmo, n) ==
    IF Len(params) # 4 THEN Raise("ParserError", qd, file, n)
    ELSE IF ~IsInt(params[3]) THEN Raise("ValueError", qd, file, n)
    ELSE LET p == ReadPayload(params[4], ToInt(params[3]), frags)
         IN  IF p.st = "hang" THEN Hang(qd, file, n)
             ELSE IF p.st = "ParserError" THEN Raise("ParserError", qd, file, n)
             ELSE LET task == NewTask(Uuid(n + 1), params[3], p.data, tmo)
                      r == DictAddTask(qd, params[2], task)
                  IN  Answer(r.answer, r.qd, file, n + 1)

RecvGet(params, qd, file, t, n) ==
    IF Len(params) # 2 THEN Raise("ParserError", qd, file, n)
    ELSE LET r == DictGetTask(qd, params[2], t)
         IN  Answer(r.answer, r.qd, file, n)

RecvAck(params, qd, file, t, n) ==
    IF Len(params) # 3 THEN Raise("ParserError", qd, file, n)
    ELSE LET r == DictAckTask(qd, params[2], params[3], t)
         IN  Answer(r.answer, r.qd, file, n)

RecvIn(params, qd, file, n) ==
    IF Len(params) # 3 THEN Raise("ParserError", qd, file, n)
    ELSE LET r == DictInTask(qd, params[2], params[3])
         IN  Answer(r.answer, r.qd, file, n)

SaveToDrive(params, qd, file, n, io) ==
    IF Len(params) # 1 THEN Raise("ParserError", qd, file, n)
    ELSE LET r == DictSaveToDrive(qd, file, io)
         IN  IF r.st = "return" THEN Answer(r.answer, qd, r.disk, n)
             ELSE IF r.st = "error" THEN Raise("OSError", qd, r.disk, n)
             ELSE Stop(qd, r.disk, n)

MakeAnswer(data, frags, qd, file, t, tmo, n, io) ==
    LET params == Split(data)
    IN  IF params = <<>> THEN Raise("IndexError", qd, file, n)
        ELSE IF params[1] = ADD THEN RecvAdd(params, frags, qd, file, t, tmo, n)
        ELSE IF params[1] = GET THEN RecvGet(params, qd, file, t, n)
        ELSE IF params[1] = ACK THEN RecvAck(params, qd, file, t, n)
        ELSE IF params[1] = IN_ THEN RecvIn(params, qd, file, n)
        ELSE IF params[1] = SAVE THEN SaveToDrive(params, qd, file, n, io)
        ELSE Answer(ERROR, qd, file, n)

ServerRecv(data, frags, qd, file, t, tmo, n, io) ==
    IF ~CanDecode(data) THEN Answer(ERROR, qd, file, n)
    ELSE LET o == MakeAnswer(data, frags, qd, file, t, tmo, n, io)
         IN  IF o.kind = "raise" /\ o.exc = "ParserError"
             THEN Answer(ERROR, o.qd, o.disk, o.uuids)
             ELSE o

\* self._timeout = timeout or 300
ServerTimeout(arg) == IF arg = 0 THEN DefaultTimeout ELSE arg

-----------------------------------------------------------------------------
(* Requests: what a client sends on one connection *)

Q1 == <<"q">>
Q2 == <<"r">>
QueueNames == {Q1, Q2}
TimeoutArgs == {1}     \* the -t arguments the process is started with
Payload == <<"a", "b">>

RECURSIVE Join(_)
Join(tokens) ==
    IF Len(tokens) = 1 THEN tokens[1]
    ELSE tokens[1] \o <<" ">> \o Join(Tail(tokens))

Request(data, frags) == [data |-> data, frags |-> frags]
NoRequest == Request(<<>>, <<>>)

Uuids == {Uuid(i) : i \in 1..MaxTasks}

\* well-formed requests, each arriving in one read
CoreRequests ==
    {Request(Join(<<ADD, q, Str(Len(Payload)), Payload>>), <<>>) : q \in QueueNames}
    \cup {Request(Join(<<GET, q>>), <<>>) : q \in QueueNames}
    \cup {Request(Join(<<ACK, q, id>>), <<>>) : q \in QueueNames, id \in Uuids}
    \cup {Request(Join(<<IN_, q, id>>), <<>>) : q \in QueueNames, id \in Uuids}
    \cup {Request(SAVE, <<>>)}

\* "ADD <q> <len> " and what the first read holds of the payload
AddLine(q, len, first) == Join(<<ADD, q, len>>) \o <<" ">> \o first

\* the ways to cut s into non-empty pieces
RECURSIVE Cuts(_)
Cuts(s) ==
    IF s = <<>> THEN {<<>>}
    ELSE UNION {{<<SubSeq(s, 1, k)>> \o c : c \in Cuts(SubSeq(s, k + 1, Len(s)))} :
                   k \in 1..Len(s)}

\* ADD q len(p) p, the first read ending after k characters of p and the
\* rest of p coming in one or more later reads
Fragmented(q, p) ==
    UNION {{Request(AddLine(q, Str(Len(p)), SubSeq(p, 1, k)), c) :
               c \in Cuts(SubSeq(p, k + 1, Len(p)))} : k \in 0..(Len(p) - 1)}

LongPayload == <<"a", "b", "c">>
SpacedPayload == <<"a", " ", "b">>
Payloads == {Payload, LongPayload, SpacedPayload}

Commands == {ADD, GET, ACK, IN_, SAVE}

\* requests of every shape, well-formed and not
ProtoRequests ==
    {Request(AddLine(q, Str(Len(p)), p), <<>>) : q \in QueueNames, p \in Payloads}
    \cup Fragmented(Q1, LongPayload)
    \cup {Request(Join(<<GET, q>>), <<>>) : q \in QueueNames}
    \cup {Request(Join(<<c, Q1, Uuid(1)>>), <<>>) : c \in {ACK, IN_}}
    \cup {Request(AddLine(Q1, <<"2">>, <<"a">>), <<<<BadByte>>>>),     \* undecodable later read
          Request(AddLine(Q1, <<"3">>, Payload), <<>>),              \* fewer bytes than declared
          Request(AddLine(Q1, <<"x">>, Payload), <<>>),              \* length that is no number
          Request(AddLine(Q1, <<"-", "1">>, Payload), <<>>),         \* negative length
          Request(Join(<<ADD, Q1, <<"2">>>>), <<>>),                 \* ADD without payload
          Request(<<"A", "D", "D", "D">> \o <<" ">> \o Join(<<Q1, <<"2">>, Payload>>), <<>>),
          Request(Join(<<<<"g", "e", "t">>, Q1>>), <<>>),            \* command in lower case
          Request(GET, <<>>),
          Request(Join(<<GET, Q1, Q1>>), <<>>),
          Request(Join(<<ACK, Q1>>), <<>>),
          Request(Join(<<IN_, Q1>>), <<>>),
          Request(Join(<<SAVE, Q1>>), <<>>),
          Request(<<>>, <<>>),                                       \* nothing was sent
          Request(<<" ">>, <<>>),                                    \* white space only
          Request(<<BadByte>>, <<>>)}                                \* undecodable first read

-----------------------------------------------------------------------------
(* History *)

NoDispatch == [id \in {} |-> [at |-> 0, n |-> 0]]

Tokens(data) == IF CanDecode(data) THEN Split(data) ELSE <<>>

\* params: the tokens of the request; o: what handling it came to
DispatchedAfter(d, params, o, t) ==
    IF o.kind # "answer" \/ params = <<>> THEN d
    ELSE IF params[1] = GET /\ o.answer # NONE /\ o.answer # ERROR
         THEN LET id == Split(o.answer)[1]
                  n == IF id \in DOMAIN d THEN d[id].n ELSE 0
              IN  [i \in DOMAIN d \cup {id} |->
                      IF i = id THEN [at |-> t, n |-> n + 1] ELSE d[i]]
    ELSE IF params[1] = ACK /\ o.answer = YES
         THEN [i \in DOMAIN d \ {params[3]} |-> d[i]]
    ELSE d

AckedAfter(a, params, o) ==
    IF o.kind = "answer" /\ params # <<>> /\ params[1] = ACK /\ o.answer = YES
    THEN a \cup {<<params[2], params[3]>>}
    ELSE a

SavedAfter(sv, params, o, qd) ==
    IF o.kind = "answer" /\ params # <<>> /\ params[1] = SAVE /\ o.answer = OK
    THEN qd
    ELSE sv

AddedAfter(a, params, o) ==
    IF o.kind = "answer" /\ params # <<>> /\ params[1] = ADD /\ o.answer # ERROR
    THEN a \cup {<<params[2], o.answer>>}
    ELSE a

\* the <<queue, id>> of the tasks a registry holds
Held(qd) == UNION {{<<n, qd[n][i].task_id>> : i \in 1..Len(qd[n])} : n \in DOMAIN qd}

\* the dispatches a restored registry records
RestoredDispatches(qd) ==
    LET waiting == {task \in UNION {Range(qd[n]) : n \in DOMAIN qd} : task.is_waiting}
    IN  [id \in {task.task_id : task \in waiting} |->
            [at |-> (CHOOSE task \in waiting : task.task_id = id).start_wait_time,
             n |-> 1]]

-----------------------------------------------------------------------------
(* Actions *)

Init ==
    /\ queues = EmptyDict
    /\ disk = NoFile
    /\ now = 0
    /\ status = "running"
    /\ timeout \in {ServerTimeout(a) : a \in TimeoutArgs}
    /\ nextUuid = 0
    /\ req = NoRequest
    /\ resp = NoAnswer
    /\ pc = "listen"
    /\ dispatched = NoDispatch
    /\ acked = {}
    /\ saved = EmptyDict
    /\ added = {}

\* one turn of the loop of run(), from accept() to send(): the request r is read
\* and handled, and its answer sent; io is what happens to a write of the snapshot
Serve(r, io) ==
    /\ status = "running"
    /\ pc = "accept"
    /\ \E o \in {ServerRecv(r.data, r.frags, queues, disk, now, timeout, nextUuid, io)},
          params \in {Tokens(r.data)} :
           /\ o.uuids <= MaxTasks
           /\ req' = r
           /\ resp' = o.answer
           /\ status' = IF o.kind = "answer" THEN "running"
                        ELSE IF o.kind = "raise" THEN "crashed"
                        ELSE IF o.kind = "stop" THEN "stopped" ELSE "hung"
           /\ pc' = IF o.kind = "answer" THEN "close" ELSE "handling"
           /\ queues' = IF o.kind \in {"raise", "stop"} THEN EmptyDict ELSE o.qd
           /\ disk' = o.disk
           /\ nextUuid' = o.uuids
           /\ dispatched' = DispatchedAfter(dispatched, params, o, now)
           /\ acked' = AckedAfter(acked, params, o)
           /\ saved' = SavedAfter(saved, params, o, queues)
           /\ added' = AddedAfter(added, params, o)
    /\ UNCHANGED <<now, timeout>>

\* bind() and listen(): the process starts to serve
Listen ==
    /\ status = "running"
    /\ pc = "listen"
    /\ pc' = "accept"
    /\ UNCHANGED <<queues, disk, now, status, timeout, nextUuid, req, resp,
                   dispatched, acked, saved, added>>

\* conn.close(), and back to accept()
Close ==
    /\ pc = "close"
    /\ pc' = "accept"
    /\ req' = NoRequest
    /\ resp' = NoAnswer
    /\ UNCHANGED <<queues, disk, now, status, timeout, nextUuid,
                   dispatched, acked, saved, added>>

\* the clock advances (between two requests, or while no process serves)
Tick ==
    /\ pc \in {"accept", "handling"}
    /\ now < MaxNow
    /\ now' = now + 1
    /\ UNCHANGED <<queues, disk, status, timeout, nextUuid, req, resp, pc,
                   dispatched, acked, saved, added>>

\* the process ends (terminated, crashed or killed while hung) and a new one is
\* started on the same directory: __init__ and init_from_base() in run()
Restart(arg) ==
    /\ pc \in {"accept", "handling"} \/ status # "running"
    /\ \E r \in {DictInitFromBase(disk)} :
           /\ queues' = r.qd
           /\ status' = IF r.ok THEN "running" ELSE "crashed"
           /\ dispatched' = RestoredDispatches(r.qd)
           /\ added' = Held(r.qd)
    /\ pc' = "listen"
    /\ timeout' = ServerTimeout(arg)
    /\ req' = NoRequest
    /\ resp' = NoAnswer
    /\ acked' = {}
    /\ UNCHANGED <<disk, now, nextUuid, saved>>

Next ==
    \/ \E r \in CoreRequests : Serve(r, NoFault)
    \/ Listen
    \/ Close
    \/ Tick
    \/ \E a \in TimeoutArgs : Restart(a)

Spec == Init /\ [][Next]_vars

\* the same server, sent requests of every shape
NextProto ==
    \/ \E r \in ProtoRequests : Serve(r, NoFault)
    \/ Listen
    \/ Close
    \/ Tick
    \/ \E a \in TimeoutArgs : Restart(a)

SpecProto == Init /\ [][NextProto]_vars

\* requests on one queue, each arriving in one read
DiskRequests ==
    {Request(Join(<<ADD, Q1, Str(Len(Payload)), Payload>>), <<>>),
     Request(Join(<<GET, Q1>>), <<>>),
     Request(SAVE, <<>>)}
    \cup {Request(Join(<<ACK, Q1, id>>), <<>>) : id \in Uuids}

\* the same server on a file system that can fail and under an operating
\* system that can stop the process, both in the middle of a write too
NextDisk ==
    \/ \E r \in DiskRequests, io \in {NoFault} \cup WriteFaults : Serve(r, io)
    \/ Listen
    \/ Close
    \/ Tick
    \/ \E a \in TimeoutArgs : Restart(a)

SpecDisk == Init /\ [][NextDisk]_vars

-----------------------------------------------------------------------------
(* Steps and requests the properties speak of *)

GetReq(q) == Request(Join(<<GET, q>>), <<>>)
AckReq(q, id) == Request(Join(<<ACK, q, id>>), <<>>)
InReq(q, id) == Request(Join(<<IN_, q, id>>), <<>>)
SaveReq == Request(SAVE, <<>>)

\* a step of Serve, and one that sent an answer
Served == pc = "accept" /\ pc' \in {"close", "handling"}
Answered == pc = "accept" /\ pc' = "close"
\* a step of Restart
Restarted == pc # "listen" /\ pc' = "listen"

TaskWithId(tasks, id) == tasks[CHOOSE i \in 1..Len(tasks) : tasks[i].task_id = id]

\* by the history: fewer than the task's timeout seconds have passed since its
\* last dispatch; at least that many have passed; it can be dispatched
InWindow(task) ==
    /\ task.task_id \in DOMAIN dispatched
    /\ now - dispatched[task.task_id].at < task.timeout * TicksPerSecond
Expired(task) ==
    /\ task.task_id \in DOMAIN dispatched
    /\ now - dispatched[task.task_id].at >= task.timeout * TicksPerSecond
Available(task) == task.task_id \notin DOMAIN dispatched \/ Expired(task)

\* the task a GET on these tasks is to answer with: the first that can be dispatched
FirstAvailable(tasks) ==
    tasks[CHOOSE i \in 1..Len(tasks) :
              /\ Available(tasks[i])
              /\ \A j \in 1..(i - 1) : ~Available(tasks[j])]

\* everything the client sends on the connection, and its tokens
RECURSIVE Concat(_)
Concat(frags) == IF frags = <<>> THEN <<>> ELSE Head(frags) \o Concat(Tail(frags))
Whole(r) == r.data \o Concat(r.frags)

Arity(command) ==
    IF command = ADD THEN 4
    ELSE IF command = GET THEN 2
    ELSE IF command = SAVE THEN 1
    ELSE 3

\* a request that decodes and whose first token is no command, or that has not
\* as many tokens as its command takes
Malformed(r) ==
    /\ CanDecode(Whole(r))
    /\ \/ Split(Whole(r)) = <<>>
       \/ Split(Whole(r))[1] \notin Commands
       \/ Len(Split(Whole(r))) # Arity(Split(Whole(r))[1])

\* the ids held by each queue, in order
Ids(qd) == [n \in DOMAIN qd |-> [i \in 1..Len(qd[n]) |-> qd[n][i].task_id]]

-----------------------------------------------------------------------------
(* C1. Visibility exclusivity: a GET on a queue never answers with a task    *)
(* while fewer than that task's timeout seconds have passed since the GET    *)
(* that last dispatched it, whatever ADD, GET, IN, ACK and SAVE requests     *)
(* came between and however many other tasks of the queue are waiting.       *)
C1_VisibilityExclusivity ==
    [][\A q \in QueueNames :
          (Answered /\ req' = GetReq(q) /\ resp' # NONE)
              => /\ q \in DOMAIN queues
                 /\ QueueInTask(queues[q], Split(resp')[1])
                 /\ ~InWindow(TaskWithId(queues[q], Split(resp')[1]))]_vars

\* a GET was answered NONE on a queue of two tasks, both inside their windows
C1_Witness ==
    /\ pc = "close" /\ req = GetReq(Q1) /\ resp = NONE
    /\ Q1 \in DOMAIN queues /\ Len(queues[Q1]) >= 2
    /\ \A i \in 1..Len(queues[Q1]) : InWindow(queues[Q1][i])

(* C2. Ack-once: ACK Q id for a task of Q that was dispatched and is inside  *)
(* its window answers YES and removes the task; from then on ACK Q id        *)
(* answers NO and IN Q id answers NO.                                        *)
C2_AckOnce ==
    [][\A q \in QueueNames, id \in Uuids :
          /\ (/\ Answered /\ req' = AckReq(q, id)
              /\ q \in DOMAIN queues /\ QueueInTask(queues[q], id)
              /\ InWindow(TaskWithId(queues[q], id)))
                 => resp' = YES /\ ~QueueInTask(queues'[q], id)
          /\ (Answered /\ req' = AckReq(q, id) /\ <<q, id>> \in acked) => resp' = NO
          /\ (Answered /\ req' = InReq(q, id) /\ <<q, id>> \in acked) => resp' = NO]_vars

\* the second ACK of a task was answered NO
C2_Witness ==
    /\ pc = "close" /\ req = AckReq(Q1, Uuid(1)) /\ resp = NO
    /\ <<Q1, Uuid(1)>> \in acked

(* C3. ACK succeeds only inside the window: on a queue the registry knows,   *)
(* ACK Q id answers YES exactly when a task with that id is in Q and fewer   *)
(* than its timeout seconds have passed since its last dispatch; otherwise   *)
(* (never dispatched, expired, absent) it answers NO and removes nothing.    *)
C3_AckOnlyInWindow ==
    [][\A q \in QueueNames, id \in Uuids :
          (Answered /\ req' = AckReq(q, id) /\ q \in DOMAIN queues)
              => /\ resp' = YES <=> (/\ QueueInTask(queues[q], id)
                                     /\ InWindow(TaskWithId(queues[q], id)))
                 /\ resp' # YES => (resp' = NO /\ Ids(queues') = Ids(queues))]_vars

\* an ACK that came after the window was answered NO and the task is still there
C3_Witness ==
    /\ pc = "close" /\ req = AckReq(Q1, Uuid(1)) /\ resp = NO
    /\ Q1 \in DOMAIN queues /\ QueueInTask(queues[Q1], Uuid(1))
    /\ Expired(TaskWithId(queues[Q1], Uuid(1)))

(* C5. Redelivery after timeout: when a task of Q was dispatched, was not    *)
(* acknowledged and at least its timeout seconds have passed, a GET on Q     *)
(* answers with a task: the first one of Q, in insertion order, that can be  *)
(* dispatched, hence that task unless an earlier one is available.           *)
C5_Redelivery ==
    [][\A q \in QueueNames :
          (/\ Answered /\ req' = GetReq(q) /\ q \in DOMAIN queues
           /\ \E i \in 1..Len(queues[q]) : Expired(queues[q][i]))
              => LET first == CHOOSE i \in 1..Len(queues[q]) :
                                  /\ Available(queues[q][i])
                                  /\ \A j \in 1..(i - 1) : ~Available(queues[q][j])
                     task == queues[q][first]
                 IN  resp' = Format3(task.task_id, task.length, task.data)]_vars

\* a GET answered with a task for the second time, the first window being over
C5_Witness ==
    /\ pc = "close" /\ req = GetReq(Q1) /\ resp # NONE
    /\ Split(resp)[1] \in DOMAIN dispatched
    /\ dispatched[Split(resp)[1]].n >= 2
    /\ dispatched[Split(resp)[1]].at = now

(* C6. Unknown queue, as the specification has it: GET, IN and ACK on a name *)
(* the registry does not know answer with a response of their own, which is  *)
(* neither the ERROR of a malformed request nor the NONE of a queue without  *)
(* an available task; the server goes on and the queue is not created.       *)
C6_UnknownQueueDedicated ==
    [][\A q \in QueueNames, id \in Uuids :
          (/\ Served /\ q \notin DOMAIN queues
           /\ req' \in {GetReq(q), InReq(q, id), AckReq(q, id)})
              => /\ pc' = "close" /\ status' = "running" /\ queues' = queues
                 /\ resp' \notin {ERROR, NONE, NoAnswer}]_vars

(* C6, amended. On a name the registry does not know, GET answers NONE, the  *)
(* answer of a queue without an available task, and IN and ACK answer ERROR, *)
(* the answer to a malformed request; the server goes on and the registry    *)
(* is unchanged (the queue is not created).                                  *)
C6_UnknownQueue ==
    [][\A q \in QueueNames, id \in Uuids :
          /\ (Served /\ q \notin DOMAIN queues /\ req' = GetReq(q))
                => (pc' = "close" /\ status' = "running" /\ queues' = queues
                    /\ resp' = NONE)
          /\ (Served /\ q \notin DOMAIN queues /\ req' \in {InReq(q, id), AckReq(q, id)})
                => (pc' = "close" /\ status' = "running" /\ queues' = queues
                    /\ resp' = ERROR)]_vars

\* IN on an unknown name was answered ERROR while another queue holds a task
C6_Witness ==
    /\ pc = "close" /\ req = InReq(Q2, Uuid(1)) /\ resp = ERROR
    /\ Q2 \notin DOMAIN queues
    /\ Q1 \in DOMAIN queues /\ QueueInTask(queues[Q1], Uuid(1))

(* C10. Snapshot durability: a process started on the file a SAVE answered   *)
(* OK has written holds the registry as it was at that SAVE: the same queue  *)
(* names, the same tasks in the same order, each with the same id, length,   *)
(* payload, timeout, waiting flag and wait start; IN finds every id of it.   *)
C10_SnapshotRoundTrip ==
    [][(Restarted /\ disk.state = "complete")
          => /\ status' = "running"
             /\ queues' = saved
             /\ \A q \in DOMAIN saved : \A i \in 1..Len(saved[q]) :
                    DictInTask(queues', q, saved[q][i].task_id).answer = YES]_vars

\* a process was started on a snapshot that holds a queue of two waiting tasks
C10_Witness ==
    /\ pc = "listen" /\ status = "running" /\ disk.state = "complete"
    /\ queues = saved
    /\ \E q \in DOMAIN queues :
          /\ Len(queues[q]) >= 2
          /\ \A i \in 1..Len(queues[q]) :
                queues[q][i].is_waiting /\ queues[q][i].start_wait_time # NoneTime

(* C4. Round trip: for every queue name Q and payload P, ADD Q len(P) P is  *)
(* answered with a fresh id and stores P, and a GET on Q that finds this     *)
(* task first among the available ones answers "<id> len(P) P" with that id  *)
(* and the payload unchanged.                                                *)
C4_RoundTrip ==
    [][/\ \A q \in QueueNames, p \in Payloads :
             (Served /\ req' = Request(AddLine(q, Str(Len(p)), p), <<>>))
                => /\ pc' = "close"
                   /\ resp' = Uuid(nextUuid + 1)
                   /\ q \in DOMAIN queues' /\ queues'[q] # <<>>
                   /\ queues'[q][Len(queues'[q])]
                          = NewTask(resp', Str(Len(p)), p, timeout)
       /\ \A q \in QueueNames :
             (/\ Served /\ req' = GetReq(q) /\ q \in DOMAIN queues
              /\ \E i \in 1..Len(queues[q]) : Available(queues[q][i])
              /\ FirstAvailable(queues[q]).length
                     = Str(Len(FirstAvailable(queues[q]).data)))
                => LET task == FirstAvailable(queues[q])
                   IN  /\ pc' = "close"
                       /\ resp' = task.task_id \o <<" ">> \o Str(Len(task.data))
                                      \o <<" ">> \o task.data]_vars

(* C7. Fragmented payload: an ADD whose first read holds the command, the    *)
(* queue, the length and any prefix of the payload, the empty one too, and   *)
(* whose later reads hold the rest, creates one task whose payload is the    *)
(* concatenation of all the fragments, and is answered with its id.          *)
C7_FragmentedPayload ==
    [][\A r \in Fragmented(Q1, LongPayload) :
          (Served /\ req' = r)
              => /\ pc' = "close"
                 /\ resp' = Uuid(nextUuid + 1)
                 /\ Q1 \in DOMAIN queues' /\ queues'[Q1] # <<>>
                 /\ queues'[Q1][Len(queues'[Q1])]
                        = NewTask(resp', Str(Len(LongPayload)), LongPayload, timeout)]_vars

(* C8. Malformed command: a request whose first token is none of ADD, GET,   *)
(* ACK, IN, SAVE (a request without tokens too) or that has the wrong number *)
(* of arguments is answered ERROR and leaves the registry unchanged.         *)
C8_MalformedCommand ==
    [][\A r \in ProtoRequests :
          (Served /\ req' = r /\ Malformed(r))
              => /\ pc' = "close" /\ status' = "running"
                 /\ resp' = ERROR
                 /\ queues' = queues /\ nextUuid' = nextUuid]_vars

(* C9. Error containment: whatever the request, an answer is sent and the    *)
(* server goes on to the next accept(); the registry it holds is kept.       *)
C9_ErrorContainment ==
    [][Served => /\ pc' = "close" /\ status' = "running"
                 /\ resp' # NoAnswer
                 /\ DOMAIN queues \subseteq DOMAIN queues']_vars

-----------------------------------------------------------------------------
(* Properties of the server on a failing file system *)

\* the file a SAVE of this registry is to leave
Snapshot(qd) == [state |-> "complete", content |-> Dump(qd)]

(* C11. Snapshot write failure: when a SAVE request is handled and the file  *)
(* cannot be written (open or the write raised), the client is sent an       *)
(* answer other than OK, the server goes on to the next accept() and the     *)
(* registry is what it was before the request.                               *)
C11_WriteFailure ==
    [][(/\ Served /\ req' = SaveReq
        /\ status' # "stopped"
        /\ disk' # Snapshot(queues))
           => /\ pc' = "close" /\ status' = "running"
              /\ resp' \notin {OK, NoAnswer}
              /\ queues' = queues]_vars

(* C12. Snapshot atomicity: whatever happens during a SAVE, a stop of the    *)
(* process in the middle of the write too, the file is afterwards either     *)
(* what it was before (the previous snapshot, or no file) or the complete    *)
(* snapshot of the registry; a process that starts never finds a file that   *)
(* is empty or holds a part of a snapshot.                                   *)
C12_SnapshotAtomicity ==
    [][/\ disk' = disk \/ disk' = Snapshot(queues)
       /\ Restarted => disk.state \in {"absent", "complete"}]_vars

-----------------------------------------------------------------------------
(* C13. Non-blocking GET: a GET on a queue the registry knows that is empty  *)
(* or whose tasks are all inside their windows is answered NONE within the   *)
(* handling of that one request (the handler has no wait), dispatches no     *)
(* task and leaves the registry as it was.                                   *)
C13_NonBlockingGet ==
    [][\A q \in QueueNames :
          (/\ Served /\ req' = GetReq(q) /\ q \in DOMAIN queues
           /\ \A i \in 1..Len(queues[q]) : InWindow(queues[q][i]))
              => /\ pc' = "close" /\ status' = "running"
                 /\ resp' = NONE
                 /\ queues' = queues
                 /\ dispatched' = dispatched]_vars

\* a GET was answered NONE on a queue whose only task had been acknowledged
C13_Witness ==
    /\ pc = "close" /\ req = GetReq(Q1) /\ resp = NONE
    /\ Q1 \in DOMAIN queues /\ queues[Q1] = <<>>
    /\ <<Q1, Uuid(1)>> \in acked

\* the place in tasks of the first task that can be dispatched
FirstAvailableAt(tasks) ==
    CHOOSE i \in 1..Len(tasks) :
        /\ Available(tasks[i])
        /\ \A j \in 1..(i - 1) : ~Available(tasks[j])

(* C14. Dispatch order: a GET on Q answers with the first task of Q, in      *)
(* insertion order, that is not inside its window (older tasks still waiting *)
(* are passed over); after it exactly that task is waiting since the         *)
(* current time, and every other task of the registry is where and what it   *)
(* was.                                                                      *)
C14_DispatchOrder ==
    [][\A q \in QueueNames :
          (/\ Served /\ req' = GetReq(q) /\ q \in DOMAIN queues
           /\ \E i \in 1..Len(queues[q]) : Available(queues[q][i]))
              => LET at == FirstAvailableAt(queues[q])
                     task == queues[q][at]
                 IN  /\ pc' = "close"
                     /\ resp' = Format3(task.task_id, task.length, task.data)
                     /\ DOMAIN queues' = DOMAIN queues
                     /\ \A n \in DOMAIN queues \ {q} : queues'[n] = queues[n]
                     /\ Len(queues'[q]) = Len(queues[q])
                     /\ queues'[q][at] =
                            [task EXCEPT !.is_waiting = TRUE, !.start_wait_time = now]
                     /\ \A j \in 1..Len(queues[q]) :
                            j # at => queues'[q][j] = queues[q][j]]_vars

\* a GET was answered with the second task of a queue, the first one, older,
\* being inside its window
C14_Witness ==
    /\ pc = "close" /\ req = GetReq(Q1) /\ resp # NONE
    /\ Q1 \in DOMAIN queues /\ Len(queues[Q1]) >= 2
    /\ Split(resp)[1] = queues[Q1][2].task_id
    /\ queues[Q1][2].start_wait_time = now
    /\ InWindow(queues[Q1][1])
    /\ dispatched[queues[Q1][1].task_id].at < now

\* the number of tasks a registry holds
RECURSIVE Count(_)
Count(qd) ==
    IF DOMAIN qd = {} THEN 0
    ELSE LET n == CHOOSE n \in DOMAIN qd : TRUE
         IN  Len(qd[n]) + Count([m \in DOMAIN qd \ {n} |-> qd[m]])

\* a request that is an ADD, an ACK
IsAdd(r) == Tokens(r.data) # <<>> /\ Tokens(r.data)[1] = ADD
IsAck(r) == Tokens(r.data) # <<>> /\ Tokens(r.data)[1] = ACK

(* C15. Task lifecycle and uniqueness: in every state of a living process    *)
(* the registry holds exactly the tasks the process created on ADD (or       *)
(* loaded at its start) and has not removed on an ACK answered YES, each of  *)
(* them once and in the queue it was added to; a GET, an IN, an ACK that is  *)
(* not answered YES, a SAVE and the passing of time leave the ids of every   *)
(* queue, and their order, as they were.                                     *)
C15_Lifecycle ==
    /\ [](status \in {"running", "hung"}
            => /\ Held(queues) = added \ acked
               /\ Count(queues) = Cardinality(Held(queues))
               /\ \A x \in Held(queues), y \in Held(queues) : x[2] = y[2] => x[1] = y[1])
    /\ [][/\ (Served /\ ~IsAdd(req') /\ ~(IsAck(req') /\ resp' = YES)
                /\ status' \in {"running", "hung"})
               => Ids(queues') = Ids(queues)
          /\ now' # now => Ids(queues') = Ids(queues)]_vars

\* of two tasks added to two queues one was acknowledged; the other is still
\* held, alone, after a GET, an IN and a SAVE
C15_Witness ==
    /\ pc = "close" /\ req = SaveReq /\ resp = OK
    /\ added = {<<Q1, Uuid(1)>>, <<Q2, Uuid(2)>>}
    /\ acked = {<<Q1, Uuid(1)>>}
    /\ Held(queues) = {<<Q2, Uuid(2)>>}
    /\ Uuid(2) \in DOMAIN dispatched
    /\ Expired(TaskWithId(queues[Q2], Uuid(2)))

\* the tasks a registry holds, and those a snapshot file holds
TasksOf(qd) == UNION {Range(qd[n]) : n \in DOMAIN qd}
TasksIn(file) == IF file.state = "complete" THEN TasksOf(Load(file.content)) ELSE {}

(* C16. Waiting and time stamp: in every state, every task of the registry   *)
(* (and of the snapshot) has its wait start set exactly when its waiting     *)
(* flag is true. Within a process, the flag of a task goes from false to     *)
(* true only in the GET that answers with this task, and from true to false  *)
(* only in a GET or an ACK that finds its window over; a waiting task leaves *)
(* the registry only by an ACK answered YES.                                 *)
C16_WaitingTimestamp ==
    /\ [](\A task \in TasksOf(queues) \cup TasksIn(disk) :
              task.is_waiting <=> task.start_wait_time # NoneTime)
    /\ [][(~Restarted /\ status' \in {"running", "hung"})
            => \A x \in Held(queues) :
                  LET old == TaskWithId(queues[x[1]], x[2])
                  IN  IF x \in Held(queues')
                      THEN LET new == TaskWithId(queues'[x[1]], x[2])
                           IN  /\ (~old.is_waiting /\ new.is_waiting)
                                     => /\ Answered /\ req' = GetReq(x[1])
                                        /\ Split(resp')[1] = x[2]
                                        /\ new.start_wait_time = now
                               /\ (old.is_waiting /\ ~new.is_waiting)
                                     => /\ Answered /\ Expired(old)
                                        /\ \/ req' = GetReq(x[1])
                                           \/ req' = AckReq(x[1], x[2]) /\ resp' = NO
                      ELSE /\ Answered /\ req' = AckReq(x[1], x[2]) /\ resp' = YES
                           /\ old.is_waiting]_vars

\* an ACK that came after the window found the flag true and left it false,
\* with no wait start
C16_Witness ==
    /\ pc = "close" /\ req = AckReq(Q1, Uuid(1)) /\ resp = NO
    /\ Q1 \in DOMAIN queues /\ QueueInTask(queues[Q1], Uuid(1))
    /\ Uuid(1) \in DOMAIN dispatched
    /\ ~TaskWithId(queues[Q1], Uuid(1)).is_waiting
    /\ TaskWithId(queues[Q1], Uuid(1)).start_wait_time = NoneTime

(* C17. No stale waiting is observed: whenever an operation reads or exports *)
(* the waiting flag of a task, the flag is not true if at least the task's   *)
(* timeout seconds have passed since its last dispatch: a GET hands out a    *)
(* task whose window is over, an ACK of it is answered NO, and no task of    *)
(* the snapshot a SAVE writes is waiting with its window over.               *)
C17_NoStaleWaiting ==
    [][\A q \in QueueNames :
          /\ (/\ Answered /\ req' = GetReq(q) /\ q \in DOMAIN queues
               /\ \E i \in 1..Len(queues[q]) : Expired(queues[q][i]))
                 => resp' # NONE
          /\ \A id \in Uuids :
                (/\ Answered /\ req' = AckReq(q, id) /\ <<q, id>> \in Held(queues)
                 /\ Expired(TaskWithId(queues[q], id)))
                   => resp' = NO
          /\ (Answered /\ req' = SaveReq)
                 => \A task \in TasksIn(disk') : task.is_waiting => ~Expired(task)]_vars

(* C18. IN is read-only: IN Q id is answered YES exactly when a task with    *)
(* that id is in Q, be it never dispatched, waiting or expired, and it       *)
(* leaves the registry as it was, the waiting flag and the wait start of     *)
(* every task included; the file and the record of dispatches too.           *)
C18_InReadOnly ==
    [][\A q \in QueueNames, id \in Uuids :
          (Served /\ req' = InReq(q, id))
              => /\ pc' = "close" /\ status' = "running"
                 /\ resp' = YES <=> <<q, id>> \in Held(queues)
                 /\ (q \in DOMAIN queues /\ <<q, id>> \notin Held(queues)) => resp' = NO
                 /\ queues' = queues
                 /\ disk' = disk /\ dispatched' = dispatched]_vars

\* IN was answered YES for a task whose window is over and whose flag is
\* still true in the registry, beside a task never dispatched
C18_Witness ==
    /\ pc = "close" /\ req = InReq(Q1, Uuid(1)) /\ resp = YES
    /\ Q1 \in DOMAIN queues /\ Len(queues[Q1]) = 2
    /\ Expired(TaskWithId(queues[Q1], Uuid(1)))
    /\ TaskWithId(queues[Q1], Uuid(1)).is_waiting
    /\ ~TaskWithId(queues[Q1], Uuid(2)).is_waiting

AddReq(q) == Request(Join(<<ADD, q, Str(Len(Payload)), Payload>>), <<>>)

(* C19. Queues are never implicitly deleted: a name that has received an ADD *)
(* is known from then on in every state of the same process, also when all   *)
(* its tasks have been acknowledged: on such an empty queue IN and ACK are   *)
(* answered NO (not the ERROR of an unknown name) and GET is answered NONE.  *)
C19_QueuesStay ==
    [][/\ (~Restarted /\ status' \in {"running", "hung"})
             => DOMAIN queues \subseteq DOMAIN queues'
       /\ \A q \in QueueNames :
             /\ (Answered /\ req' = AddReq(q)) => q \in DOMAIN queues'
             /\ (Served /\ q \in DOMAIN queues /\ queues[q] = <<>>)
                   => /\ req' = GetReq(q) => (resp' = NONE /\ queues' = queues)
                      /\ \A id \in Uuids :
                            req' \in {InReq(q, id), AckReq(q, id)}
                               => (resp' = NO /\ queues' = queues)]_vars

\* IN was answered NO on a queue whose only task had been acknowledged
C19_Witness ==
    /\ pc = "close" /\ req = InReq(Q1, Uuid(1)) /\ resp = NO
    /\ Q1 \in DOMAIN queues /\ queues[Q1] = <<>>
    /\ <<Q1, Uuid(1)>> \in acked

(* C20. ADD handling terminates: for every ADD request, one that declares a  *)
(* length larger than the number of payload bytes the client sends before it *)
(* closes the connection too, the loop that reads the rest of the payload    *)
(* ends and the server comes to the next accept().                           *)
C20_AddTerminates ==
    [][(Served /\ IsAdd(req')) => status' # "hung"]_vars

====
